---- MODULE Spec2Model ----
(***************************************************************************)
(* Model of the phone-menu protocol layer of usecallmanager-services:      *)
(* the softkey position table, the three XML document builders, device-    *)
(* name validation, the directory, services and information handlers, and  *)
(* the quality-report / problem-report request handlers with the files     *)
(* they write under the reports directory.                                 *)
(*                                                                         *)
(* Strings the code inspects character by character (device names, file    *)
(* names, display names) are sequences of one-character strings.           *)
(***************************************************************************)
EXTENDS Integers, Sequences, FiniteSets, TLC

VARIABLES
    doc,        \* builder object: is_79xx and the softkeys added so far
    lastCall,   \* the last softkey_position call: role and returned position
    xml,        \* what build() returned, once it was called
    softkeyFirst, \* history: a softkey was added before a body element was
    vName,      \* last string handed to validate_device_name
    vResult,    \* what validate_device_name returned for it
    dReq,       \* last directory_entries request
    dResp,      \* the response computed for it
    dCalls,     \* the backend calls issued while serving it
    dLog,       \* history: the requests served so far, each with its response
    req,        \* request id -> request-handling task (inputs, position, locals)
    out,        \* the task that answered last, with its response
    accepted,   \* history: quality log -> the requests answered with a confirmation
    fs,         \* reports directory: file name -> content (sequence of chunks)
    now         \* wall clock, in seconds, as last read

builderVars == <<doc, lastCall, xml, softkeyFirst>>
validateVars == <<vName, vResult>>
dirVars == <<dReq, dResp, dCalls, dLog>>
flowVars == <<req, out, accepted, fs, now>>
vars == <<doc, lastCall, xml, softkeyFirst, vName, vResult, dReq, dResp, dCalls, dLog, req, out, accepted, fs, now>>

Null == "null"

(***************************************************************************)
(* Bounds of the model.                                                    *)
(***************************************************************************)
MaxSoftkeys == 3
MaxItems == 2
MaxPad == 1
MaxEntries == 30
MaxPage == 4
MaxCalls == 12
MaxServed == 3
MaxReq == 2
MaxClock == 1

(***************************************************************************)
(* Characters.                                                             *)
(***************************************************************************)
NL == "\n"
Digits == {"0", "1", "2", "3", "4", "5", "6", "7", "8", "9"}
HexChars == Digits \cup {"A", "B", "C", "D", "E", "F"}
Whitespace == {" ", NL}
UpperChars ==
    <<"A", "B", "C", "D", "E", "F", "G", "H", "I", "J", "K", "L", "M",
      "N", "O", "P", "Q", "R", "S", "T", "U", "V", "W", "X", "Y", "Z">>
LowerChars ==
    <<"a", "b", "c", "d", "e", "f", "g", "h", "i", "j", "k", "l", "m",
      "n", "o", "p", "q", "r", "s", "t", "u", "v", "w", "x", "y", "z">>
DigitChars == <<"0", "1", "2", "3", "4", "5", "6", "7", "8", "9">>
CodeOrder == <<" ">> \o DigitChars \o UpperChars \o LowerChars

\* str.strip(): drop leading and trailing whitespace
RECURSIVE LStrip(_)
LStrip(s) ==
    IF s # <<>> /\ Head(s) \in Whitespace THEN LStrip(Tail(s)) ELSE s

RECURSIVE RStrip(_)
RStrip(s) ==
    IF s # <<>> /\ s[Len(s)] \in Whitespace
    THEN RStrip(SubSeq(s, 1, Len(s) - 1))
    ELSE s

Strip(s) == RStrip(LStrip(s))

(***************************************************************************)
(* dependencies.py: validate_device_name                                   *)
(*   re.match(r"^SEP[0-9A-F]{12}$", device_name)                           *)
(***************************************************************************)
HexLen == 12
SepPrefix == <<"S", "E", "P">>

\* Python's "$" (no MULTILINE): matches at the end of the string and also
\* just before a newline that is the last character of the string.
AtDollar(s, pos) ==
    \/ pos = Len(s) + 1
    \/ pos = Len(s) /\ s[pos] = NL

\* the same pattern searched for anywhere in the string (no "^" anchor)
ValidateDeviceNameUnanchored(s) ==
    \E o \in 0..Len(s) :
        /\ Len(s) - o >= Len(SepPrefix) + HexLen
        /\ SubSeq(s, o + 1, o + Len(SepPrefix)) = SepPrefix
        /\ \A i \in (Len(SepPrefix) + 1)..(Len(SepPrefix) + HexLen) : s[o + i] \in HexChars
        /\ AtDollar(s, o + Len(SepPrefix) + HexLen + 1)

ValidateDeviceName(s) ==
    /\ Len(s) >= Len(SepPrefix) + HexLen
    /\ SubSeq(s, 1, Len(SepPrefix)) = SepPrefix
    /\ \A i \in (Len(SepPrefix) + 1)..(Len(SepPrefix) + HexLen) : s[i] \in HexChars
    /\ AtDollar(s, Len(SepPrefix) + HexLen + 1)

(***************************************************************************)
(* Inputs for validate_device_name: a well-formed name, every one-         *)
(* character substitution of it, its truncations, and paddings of it on    *)
(* either side.                                                            *)
(***************************************************************************)
D1 == <<"S", "E", "P", "0", "9", "A", "F", "0", "9", "A", "F", "0", "9", "A", "F">>
D2 == <<"S", "E", "P", "1", "2", "3", "4", "5", "6", "7", "8", "9", "A", "B", "C">>
SubstChars == {"S", "E", "P", "0", "9", "A", "F", "G", "a", "f", "/", ".", "-", " ", NL}
PadChars == {NL, " ", "/", ".", "0", "F", "S", "a"}

Pads == UNION {[1..k -> PadChars] : k \in 0..MaxPad}
Substituted == {[D1 EXCEPT ![i] = c] : i \in 1..Len(D1), c \in SubstChars}
Truncated == {SubSeq(D1, 1, k) : k \in 0..Len(D1)}
Padded == {p \o D1 \o q : p \in Pads, q \in Pads}
CandidateNames ==
    Substituted \cup {s \o <<NL>> : s \in Substituted} \cup Truncated \cup Padded
        \cup {D2}

\* one call of validate_device_name on the input drawn by the initial state
ValidateCall ==
    /\ ~vResult.done
    /\ vResult' = [done |-> TRUE, value |-> ValidateDeviceName(vName)]
    /\ UNCHANGED <<vName, builderVars, dirVars, flowVars>>

(***************************************************************************)
(* xml_responses.py: CiscoIPPhoneXML.softkey_position / add_softkey        *)
(***************************************************************************)
Roles == {"exit", "select", "update", "next", "previous"}
OtherRoles == {"help", ""}

Positions79xx ==
    [r \in Roles |->
        CASE r = "exit" -> "3" [] r = "select" -> "1" [] r = "update" -> "2"
          [] r = "next" -> "2" [] r = "previous" -> "4"]

PositionsModern ==
    [r \in Roles |->
        CASE r = "exit" -> "1" [] r = "select" -> "2" [] r = "update" -> "3"
          [] r = "next" -> "3" [] r = "previous" -> "4"]

\* a lookup that answers the key itself when the table has no such key
DictGetKey(d, k, default) == IF k \in DOMAIN d THEN d[k] ELSE k

\* dict.get(role, "1")
DictGet(d, k, default) == IF k \in DOMAIN d THEN d[k] ELSE default

\* the family's table for Exit only, the modern table for every other role
SoftkeyPositionExitOnly(is_79xx, role) ==
    DictGet(IF is_79xx /\ role = "exit" THEN Positions79xx ELSE PositionsModern, role, "1")

\* the modern table used for both families
SoftkeyPositionOneTable(is_79xx, role) == DictGet(PositionsModern, role, "1")

SoftkeyPosition(is_79xx, role) ==
    LET positions == IF is_79xx THEN Positions79xx ELSE PositionsModern
    IN  DictGet(positions, role, "1")

NewBuilder(is_79xx) == [is_79xx |-> is_79xx, softkeys |-> <<>>]

\* the call pattern of every router: add_softkey(name, url, softkey_position(role))
AddSoftkey(name, url, role) ==
    /\ ~xml.built
    /\ Len(doc.softkeys) < MaxSoftkeys
    /\ LET position == SoftkeyPosition(doc.is_79xx, role)
       IN  /\ lastCall' = [role |-> role, position |-> position]
           /\ doc' = [doc EXCEPT !.softkeys =
                        Append(@, [name |-> name, position |-> position, url |-> url])]
    /\ UNCHANGED <<xml, softkeyFirst, validateVars, dirVars, flowVars>>

(***************************************************************************)
(* xml_responses.py: the three builders and build().                       *)
(*                                                                         *)
(* The string build() returns is a sequence of tokens: the tags and the    *)
(* literal text of the f-string templates (Open, Close, Lit) and, for      *)
(* every interpolated value, the characters that escape() or quote_plus()  *)
(* made of it, one Chr token each.  The white space the templates put      *)
(* between elements is left out.                                           *)
(***************************************************************************)
Open(tag) == [t |-> "open", v |-> tag]
Close(tag) == [t |-> "close", v |-> tag]
Lit(text) == [t |-> "lit", v |-> text]
Chr(c) == [t |-> "chr", v |-> c]
Chars(s) == [i \in 1..Len(s) |-> Chr(s[i])]
Element(tag, content) == <<Open(tag)>> \o content \o <<Close(tag)>>

\* html.escape(s) with quote=True
EscapeChar(c) ==
    CASE c = "&" -> <<"&", "a", "m", "p", ";">>
      [] c = "<" -> <<"&", "l", "t", ";">>
      [] c = ">" -> <<"&", "g", "t", ";">>
      [] c = "\"" -> <<"&", "q", "u", "o", "t", ";">>
      [] c = "'" -> <<"&", "#", "x", "2", "7", ";">>
      [] OTHER -> <<c>>

RECURSIVE Escape(_)
Escape(s) == IF s = <<>> THEN <<>> ELSE EscapeChar(Head(s)) \o Escape(Tail(s))

\* urllib.parse.quote_plus(s): letters, digits and "_.-~" stay, a space
\* becomes "+", every other character becomes "%" and its two hex digits
SafeChars ==
    {CodeOrder[i] : i \in 2..Len(CodeOrder)} \cup {"_", ".", "-", "~"}
HexOf(c) ==
    CASE c = "+" -> <<"2", "B">>
      [] c = "<" -> <<"3", "C">>
      [] c = ">" -> <<"3", "E">>
      [] c = "&" -> <<"2", "6">>
      [] c = "\"" -> <<"2", "2">>
      [] c = "'" -> <<"2", "7">>
      [] c = "#" -> <<"2", "3">>
      [] c = "*" -> <<"2", "A">>
      [] c = "/" -> <<"2", "F">>
      [] c = "%" -> <<"2", "5">>
QuotePlusChar(c) ==
    IF c \in SafeChars THEN <<c>>
    ELSE IF c = " " THEN <<"+">>
    ELSE <<"%">> \o HexOf(c)

RECURSIVE QuotePlus(_)
QuotePlus(s) == IF s = <<>> THEN <<>> ELSE QuotePlusChar(Head(s)) \o QuotePlus(Tail(s))

\* CiscoIPPhoneMenu.__init__, CiscoIPPhoneDirectory.__init__, CiscoIPPhoneText.__init__
NewMenu(title, is_79xx) ==
    [kind |-> "menu", is_79xx |-> is_79xx, softkeys |-> <<>>, title |-> title,
     items |-> <<>>]
NewDirectory(title, is_79xx, prompt) ==
    [kind |-> "directory", is_79xx |-> is_79xx, softkeys |-> <<>>, title |-> title,
     prompt |-> prompt, items |-> <<>>]
NewText(title, text, is_79xx) ==
    [kind |-> "text", is_79xx |-> is_79xx, softkeys |-> <<>>, title |-> title,
     text |-> text, items |-> <<>>]

NotBuilt == [built |-> FALSE, out |-> <<>>]

\* add_item(name, url) of a menu
AddItem(name, url) ==
    /\ ~xml.built
    /\ doc.kind = "menu"
    /\ Len(doc.items) < MaxItems
    /\ doc' = [doc EXCEPT !.items = Append(@, [name |-> name, url |-> url])]
    /\ softkeyFirst' = (softkeyFirst \/ doc.softkeys # <<>>)
    /\ UNCHANGED <<lastCall, xml, validateVars, dirVars, flowVars>>

\* add_entry(name, telephone) of a directory
AddEntry(name, telephone) ==
    /\ ~xml.built
    /\ doc.kind = "directory"
    /\ Len(doc.items) < MaxItems
    /\ doc' = [doc EXCEPT !.items = Append(@, [name |-> name, telephone |-> telephone])]
    /\ softkeyFirst' = (softkeyFirst \/ doc.softkeys # <<>>)
    /\ UNCHANGED <<lastCall, xml, validateVars, dirVars, flowVars>>

RECURSIVE Flatten(_)
Flatten(ss) == IF ss = <<>> THEN <<>> ELSE Head(ss) \o Flatten(Tail(ss))

\* one string of self._softkeys, as add_softkey formats it
SoftKeyItem(k) ==
    Element("SoftKeyItem",
            Element("Name", Chars(Escape(k.name)))
                \o Element("Position", <<Chr(k.position)>>)
                \o Element("URL", Chars(Escape(k.url))))

\* _build_softkeys: "".join(self._softkeys)
BuildSoftkeys(d) == Flatten([i \in 1..Len(d.softkeys) |-> SoftKeyItem(d.softkeys[i])])

MenuItem(it) ==
    Element("MenuItem",
            Element("Name", Chars(Escape(it.name))) \o Element("URL", Chars(Escape(it.url))))

DirectoryEntry(e) ==
    Element("DirectoryEntry",
            Element("Name", Chars(Escape(e.name)))
                \o Element("Telephone", Chars(QuotePlus(e.telephone))))

XmlDeclaration == [t |-> "decl", v |-> "<?xml version=\"1.0\" encoding=\"UTF-8\"?>"]
SelectEntry == <<"S", "e", "l", "e", "c", "t", " ", "e", "n", "t", "r", "y">>

RootOf(d) ==
    CASE d.kind = "menu" -> "CiscoIPPhoneMenu"
      [] d.kind = "directory" -> "CiscoIPPhoneDirectory"
      [] d.kind = "text" -> "CiscoIPPhoneText"

TitleOf(d) == Element("Title", Chars(Escape(d.title)))

BodyOf(d) ==
    CASE d.kind = "menu" -> Flatten([i \in 1..Len(d.items) |-> MenuItem(d.items[i])])
      [] d.kind = "directory" ->
            Flatten([i \in 1..Len(d.items) |-> DirectoryEntry(d.items[i])])
      [] d.kind = "text" -> Element("Text", Chars(Escape(d.text)))

\* the prompt emitted for both families
PromptAlways(d) == Element("Prompt", <<Lit("Your current options")>>)

\* if self.is_79xx: the Prompt line (the directory's own prompt or "Select entry")
PromptOf(d) ==
    IF ~d.is_79xx THEN <<>>
    ELSE IF d.kind = "directory"
         THEN Element("Prompt",
                      Chars(Escape(IF d.prompt # <<>> THEN d.prompt ELSE SelectEntry)))
         ELSE Element("Prompt", <<Lit("Your current options")>>)

\* build() that emits the softkeys right after the title
BuildSoftkeysFirst(d) ==
    <<XmlDeclaration>>
        \o Element(RootOf(d), TitleOf(d) \o BuildSoftkeys(d) \o BodyOf(d) \o PromptOf(d))

\* build() of the three classes
Build(d) ==
    <<XmlDeclaration>>
        \o Element(RootOf(d), TitleOf(d) \o BodyOf(d) \o PromptOf(d) \o BuildSoftkeys(d))

\* the call of build() that ends every handler
BuildCall ==
    /\ ~xml.built
    /\ xml' = [built |-> TRUE, out |-> Build(doc)]
    /\ UNCHANGED <<doc, lastCall, softkeyFirst, validateVars, dirVars, flowVars>>

(***************************************************************************)
(* Values handed to the builders: plain text and text that holds the       *)
(* characters escape() and quote_plus() are there for.                     *)
(***************************************************************************)
Titles == { <<"T">>, <<"<", "P", "r", "o", "m", "p", "t", ">">> }
ItemNames == { <<"a">>, <<"<", "&", "\"">> }
ItemUrls == { <<"u", "?", "a", "=", "1", "&", "b", "=", "2">> }
Telephones == { <<"1", "0", "1">>, <<"+", "1", " ", "2">> }
Prompts == { <<>>, <<"S", "e", "l", "e", "c", "t", " ", "c", "a", "l", "l">> }
Texts == { <<"O", "K">>, <<"a", "<", "b">> }
SoftkeyInputs ==
    { [name |-> <<"E", "x", "i", "t">>, url |-> <<"I", "n", "i", "t", ":", "S">>,
       role |-> "exit"],
      [name |-> <<"N", "e", "x", "t">>, url |-> <<"u", "?", "a", "&", "p", "=", "2">>,
       role |-> "next"] }

NewDocuments ==
    {NewMenu(t, f) : t \in Titles, f \in BOOLEAN}
        \cup {NewDirectory(t, f, p) : t \in Titles, f \in BOOLEAN, p \in Prompts}
        \cup {NewText(t, x, f) : t \in Titles, x \in Texts, f \in BOOLEAN}


(***************************************************************************)
(* Character order and case mapping (code-point order of the characters    *)
(* used: space < digits < upper case < lower case).                        *)
(***************************************************************************)
Ord(c) == CHOOSE i \in 1..Len(CodeOrder) : CodeOrder[i] = c

\* str.upper() on one character
Upper(c) ==
    IF \E i \in 1..Len(LowerChars) : LowerChars[i] = c
    THEN UpperChars[CHOOSE i \in 1..Len(LowerChars) : LowerChars[i] = c]
    ELSE c

\* Python's str "<": lexicographic by code point, a proper prefix is smaller
RECURSIVE StrLess(_, _)
StrLess(a, b) ==
    IF b = <<>> THEN FALSE
    ELSE IF a = <<>> THEN TRUE
    ELSE IF Head(a) = Head(b) THEN StrLess(Tail(a), Tail(b))
    ELSE Ord(Head(a)) < Ord(Head(b))

\* str(n) for n >= 0
RECURSIVE Str(_)
Str(n) == IF n < 10 THEN <<DigitChars[n + 1]>> ELSE Str(n \div 10) \o <<DigitChars[(n % 10) + 1]>>

\* sorted(entries, key=lambda e: e[1]) / list.sort(key=...): stable, ascending
RECURSIVE InsertByName(_, _)
InsertByName(sorted, e) ==
    IF sorted = <<>> THEN <<e>>
    ELSE IF StrLess(e.name, Head(sorted).name) THEN <<e>> \o sorted
    ELSE <<Head(sorted)>> \o InsertByName(Tail(sorted), e)

RECURSIVE SortByName(_)
SortByName(entries) ==
    IF entries = <<>> THEN <<>>
    ELSE InsertByName(SortByName(SubSeq(entries, 1, Len(entries) - 1)), entries[Len(entries)])

\* the filter without the upper-casing of the first character
RECURSIVE FilterByIndexExact(_, _)
FilterByIndexExact(seq, index) ==
    IF seq = <<>> THEN <<>>
    ELSE LET e == Head(seq)
             keep == e.name # <<>> /\ \E i \in 1..Len(index) : index[i] = e.name[1]
         IN  (IF keep THEN <<e>> ELSE <<>>) \o FilterByIndexExact(Tail(seq), index)

\* [(mailbox, name) for ... if name and name[0].upper() in index]
RECURSIVE FilterByIndex(_, _)
FilterByIndex(seq, index) ==
    IF seq = <<>> THEN <<>>
    ELSE LET e == Head(seq)
             keep == e.name # <<>> /\ \E i \in 1..Len(index) : index[i] = Upper(e.name[1])
         IN  (IF keep THEN <<e>> ELSE <<>>) \o FilterByIndex(Tail(seq), index)

Max(a, b) == IF a >= b THEN a ELSE b
Min(a, b) == IF a <= b THEN a ELSE b
\* math.ceil(a / b) for a >= 0, b > 0
Ceil(a, b) == IF a % b = 0 THEN a \div b ELSE (a \div b) + 1

(***************************************************************************)
(* asterisk_manager.py: get_voicemail_users                                *)
(***************************************************************************)
GetVoicemailUsers(raw) == SortByName(raw)

(***************************************************************************)
(* routers/directory.py                                                    *)
(***************************************************************************)
DIAL_INDICES ==
    << <<"1">>, <<"2", "A", "B", "C">>, <<"3", "D", "E", "F">>, <<"4", "G", "H", "I">>,
       <<"5", "J", "K", "L">>, <<"6", "M", "N", "O">>, <<"7", "P", "Q", "R", "S">>,
       <<"8", "T", "U", "V">>, <<"9", "W", "X", "Y", "Z">>, <<"0">> >>

PerPage == 10

Softkey(name, url, position) == [name |-> name, position |-> position, url |-> url]

\* f"{base_url}<path>"
Url(base_url, path) == [base |-> base_url, path |-> path]
\* the index put into the link as it is
EntriesUrlUnquoted(base_url, index, page) ==
    [base |-> base_url, path |-> "/directory/entries", index |-> index, page |-> page]

\* f"{base_url}/directory/entries?index={quote_plus(index)}&page={page}"
EntriesUrl(base_url, index, page) ==
    [base |-> base_url, path |-> "/directory/entries", index |-> QuotePlus(index),
     page |-> page]
\* the link of an index item: no page parameter
IndexItemUrl(base_url, index) ==
    [base |-> base_url, path |-> "/directory/entries", index |-> QuotePlus(index)]

\* the framework reading a query parameter: "+" is a space, %XX a character
QuotedChars == {"+", "<", ">", "&", "\"", "'", "#", "*", "/", "%"}
RECURSIVE UnquotePlus(_)
UnquotePlus(s) ==
    IF s = <<>> THEN <<>>
    ELSE IF Head(s) = "+" THEN <<" ">> \o UnquotePlus(Tail(s))
    ELSE IF Head(s) = "%" /\ Len(s) >= 3
            /\ \E c \in QuotedChars : HexOf(c) = <<s[2], s[3]>>
    THEN <<CHOOSE c \in QuotedChars : HexOf(c) = <<s[2], s[3]>> >>
         \o UnquotePlus(SubSeq(s, 4, Len(s)))
    ELSE <<Head(s)>> \o UnquotePlus(Tail(s))

\* directory_index: the menu of the ten dial-pad groups
DirectoryIndex(is_79xx, base_url) ==
    [status |-> 200, kind |-> "menu", is_79xx |-> is_79xx,
     title |-> "Local Directory",
     items |-> [i \in 1..Len(DIAL_INDICES) |->
                  [name |-> DIAL_INDICES[i], url |-> IndexItemUrl(base_url, DIAL_INDICES[i])]],
     softkeys |->
        << Softkey("Exit", "Init:Directories", SoftkeyPosition(is_79xx, "exit")),
           Softkey(IF is_79xx THEN "Select" ELSE "View", "SoftKey:Select",
                   SoftkeyPosition(is_79xx, "select")),
           Softkey("Help", Url(base_url, "/directory/help"),
                   SoftkeyPosition(is_79xx, "update")) >>]

\* pagination that does not clamp the requested page
PageOfUnclamped(page, total_pages) == page

\* a page cursor kept by the server: the page after the one served last
PageOfCursor(page, total_pages) ==
    IF dLog # <<>> /\ dLog[Len(dLog)].resp.kind = "directory"
    THEN Min(dLog[Len(dLog)].resp.page + 1, total_pages)
    ELSE Min(page, total_pages)

\* page = min(page, total_pages)
PageOf(page, total_pages) == Min(page, total_pages)

\* total_pages = max(1, ceil(len(entries) / per_page))
TotalPages(n) == Max(1, Ceil(n, PerPage))

\* a slice bound as Python reads it: a negative bound counts from the end
SliceBound(i, len) == IF i < 0 THEN Max(len + i, 0) ELSE Min(i, len)

\* a slice that runs one entry into the next page
SliceWithOverlap(entries, start, stop) ==
    LET lo == SliceBound(start, Len(entries))
        hi == SliceBound(stop + 1, Len(entries))
    IN  IF hi <= lo THEN <<>> ELSE SubSeq(entries, lo + 1, hi)

\* entries[start : start + per_page], start counted from 0
Slice(entries, start, stop) ==
    LET lo == SliceBound(start, Len(entries))
        hi == SliceBound(stop, Len(entries))
    IN  IF hi <= lo THEN <<>> ELSE SubSeq(entries, lo + 1, hi)

\* a Next key on the last page too
HasNextInclusive(page, total_pages) == page <= total_pages

\* if page < total_pages
HasNext(page, total_pages) == page < total_pages

\* if page > 1
HasPrevious(page) == page > 1

\* directory_entries that builds the listing without looking at the index
DirectoryEntriesNoFallback(is_79xx, base_url, index, reqPage, all_entries) ==
    [status |-> 200, kind |-> "directory", is_79xx |-> is_79xx, title |-> index,
     filtered |-> 0, total_pages |-> 1, page |-> 1, entries |-> <<>>,
     softkeys |->
        << Softkey("Exit", Url(base_url, "/directory"), SoftkeyPosition(is_79xx, "exit")),
           Softkey(IF is_79xx THEN "Dial" ELSE "Call", "SoftKey:Select",
                   SoftkeyPosition(is_79xx, "select")) >>]

\* directory_entries with a backend that answers all_entries
DirectoryEntries(is_79xx, base_url, index, reqPage, all_entries) ==
    IF index = <<>> THEN DirectoryIndex(is_79xx, base_url)
    ELSE
    LET entries == SortByName(FilterByIndex(all_entries, index))
        total_pages == TotalPages(Len(entries))
        page == PageOf(reqPage, total_pages)
        start == (page - 1) * PerPage
        page_entries == Slice(entries, start, start + PerPage)
        title == index \o (IF total_pages > 1
                           THEN <<" ">> \o Str(page) \o <<"/">> \o Str(total_pages)
                           ELSE <<>>)
    IN  [status |-> 200, kind |-> "directory", is_79xx |-> is_79xx,
         title |-> title,
         filtered |-> Len(entries), total_pages |-> total_pages, page |-> page,
         entries |-> [i \in 1..Len(page_entries) |->
                        [name |-> page_entries[i].name, telephone |-> page_entries[i].mailbox]],
         softkeys |->
            << Softkey("Exit", Url(base_url, "/directory"), SoftkeyPosition(is_79xx, "exit")),
               Softkey(IF is_79xx THEN "Dial" ELSE "Call", "SoftKey:Select",
                       SoftkeyPosition(is_79xx, "select")) >>
            \o (IF HasNext(page, total_pages)
                THEN <<Softkey("Next", EntriesUrl(base_url, index, page + 1),
                               SoftkeyPosition(is_79xx, "next"))>>
                ELSE <<>>)
            \o (IF HasPrevious(page)
                THEN <<Softkey("Previous", EntriesUrl(base_url, index, page - 1),
                               SoftkeyPosition(is_79xx, "previous"))>>
                ELSE <<>>)]

NoResponse == [status |-> 0, kind |-> "none"]

\* a page parameter that is let through whatever its value
PageAcceptedAny(page) == TRUE

\* page: int = Query(default=1, ge=1)
PageAccepted(page) == page >= 1

\* the framework's answer to a page that fails ge=1: the handler is not run
PageRejected == [status |-> 422, kind |-> "json", body |-> "greater_than_equal"]

\* the framework's answer to an exception that leaves the handler
ServerError == [status |-> 500, kind |-> "plain", body |-> "Internal Server Error"]

(***************************************************************************)
(* asterisk_manager.py: the backend session of a listing handler,          *)
(*   async with get_manager_client(settings) as manager:                   *)
(*       result = await manager.<fetch>()                                  *)
(* fails is the set of calls that raise (transport error, timeout, error   *)
(* status, unparsable answer).  A failed Login raises out of __aenter__    *)
(* and nothing else is sent; otherwise the fetch is sent and __aexit__     *)
(* sends Logoff, whose exception is not caught either.                     *)
(***************************************************************************)
SessionCalls(action, fails) ==
    IF "Login" \in fails THEN <<"Login">> ELSE <<"Login", action, "Logoff">>

\* a session that lets only a failed Login out
SessionRaisesAtLoginOnly(fails) == "Login" \in fails

SessionRaises(fails) ==
    \/ "Login" \in fails
    \/ "Fetch" \in fails
    \/ "Logoff" \in fails

\* sorted(calls, key=lambda c: c[0]): stable, ascending by extension
RECURSIVE InsertByExten(_, _)
InsertByExten(sorted, c) ==
    IF sorted = <<>> THEN <<c>>
    ELSE IF StrLess(c.mailbox, Head(sorted).mailbox) THEN <<c>> \o sorted
    ELSE <<Head(sorted)>> \o InsertByExten(Tail(sorted), c)

RECURSIVE SortByExten(_)
SortByExten(calls) ==
    IF calls = <<>> THEN <<>>
    ELSE InsertByExten(SortByExten(SubSeq(calls, 1, Len(calls) - 1)), calls[Len(calls)])

GetParkedCalls(raw) == SortByExten(raw)

(***************************************************************************)
(* routers/services.py                                                     *)
(***************************************************************************)
ServicesMenu(is_79xx, base_url) ==
    [status |-> 200, kind |-> "menu", is_79xx |-> is_79xx,
     title |-> "Services",
     items |-> << [name |-> "Parked Calls", url |-> Url(base_url, "/services/parked-calls")] >>,
     softkeys |->
        << Softkey("Exit", "Init:Services", SoftkeyPosition(is_79xx, "exit")),
           Softkey("Select", "SoftKey:Select", SoftkeyPosition(is_79xx, "select")) >>]

\* parked_calls that shows the calls ten to a page
ParkedCallsPaged(is_79xx, base_url, calls) ==
    [status |-> 200, kind |-> "directory", is_79xx |-> is_79xx,
     title |-> "Parked Calls", prompt |-> "Select call",
     entries |-> [i \in 1..Min(Len(calls), PerPage) |->
                    [name |-> calls[i].name, telephone |-> calls[i].mailbox]],
     softkeys |->
        << Softkey("Exit", Url(base_url, "/services"), SoftkeyPosition(is_79xx, "exit")),
           Softkey(IF is_79xx THEN "Dial" ELSE "Call", "SoftKey:Select",
                   SoftkeyPosition(is_79xx, "select")) >>
        \o (IF Len(calls) > PerPage
            THEN <<Softkey("Next", Url(base_url, "/services/parked-calls"),
                           SoftkeyPosition(is_79xx, "next"))>>
            ELSE <<Softkey("Update", "SoftKey:Update", SoftkeyPosition(is_79xx, "update"))>>)]

\* parked_calls with a backend that answers calls
ParkedCalls(is_79xx, base_url, calls) ==
    [status |-> 200, kind |-> "directory", is_79xx |-> is_79xx,
     title |-> "Parked Calls", prompt |-> "Select call",
     entries |-> [i \in 1..Len(calls) |->
                    [name |-> calls[i].name, telephone |-> calls[i].mailbox]],
     softkeys |->
        << Softkey("Exit", Url(base_url, "/services"), SoftkeyPosition(is_79xx, "exit")),
           Softkey(IF is_79xx THEN "Dial" ELSE "Call", "SoftKey:Select",
                   SoftkeyPosition(is_79xx, "select")),
           Softkey("Update", "SoftKey:Update", SoftkeyPosition(is_79xx, "update")) >>]

(***************************************************************************)
(* routers/directory.py: directory_help; routers/information.py            *)
(***************************************************************************)
DirectoryHelp(is_79xx) ==
    [status |-> 200, kind |-> "text", is_79xx |-> is_79xx,
     title |-> "How To Use", text |-> "Use the keypad",
     softkeys |-> << Softkey("Back", "SoftKey:Exit", SoftkeyPosition(is_79xx, "exit")) >>]

InvalidId == [status |-> 500, kind |-> "plain", body |-> "Invalid id"]

\* help_information: the family of the request is not looked at
\* the framework's answer to a query parameter that fails its pattern
UnprocessableEntity == [status |-> 422, kind |-> "json", body |-> "string_pattern_mismatch"]

HelpInformation(id, item) ==
    IF id = <<>> THEN InvalidId
    ELSE IF \E i \in 1..Len(id) : id[i] \notin Digits THEN UnprocessableEntity
    ELSE [status |-> 200, kind |-> "text", is_79xx |-> TRUE,
          title |-> (IF item THEN "Item title" ELSE "Information"),
          text |-> (IF item THEN "Item text" ELSE "Sorry, no help on that topic."),
          softkeys |-> << Softkey("Exit", "Key:Info", "3") >>]

(***************************************************************************)
(* Backend lists used as inputs: n entries whose display names run through *)
(* a pool of names with a stride.                                          *)
(***************************************************************************)
NamePool ==
    << <<"A", "l", "i", "c", "e">>, <<"a", "l", "a", "n">>, <<"B", "o", "b">>,
       <<"Z", "e", "d">>, <<"b", "o">>, <<"2", "p", "a", "c">>, <<>>,
       <<"C", "a", "r", "l">> >>
Strides == {1, 3}
RawEntries(n, stride) ==
    [i \in 1..n |->
        [mailbox |-> <<"1">> \o Str(i \div 10) \o Str(i % 10),
         name |-> NamePool[((i * stride) % Len(NamePool)) + 1]]]

\* the ParkedCall events of the backend's answer, in the order of the
\* answer: extensions 700..716 in no particular order, caller names from
\* the pool (the empty one is a call without caller id)
ParkedEvents(n, stride) ==
    [i \in 1..n |->
        [mailbox |-> <<"7">> \o Str(((i * 7) % 17) \div 10) \o Str(((i * 7) % 17) % 10),
         name |-> NamePool[((i * stride) % Len(NamePool)) + 1]]]

BaseUrls == {"http://pbx", "http://10.0.0.1:8000"}
Failures == {{}, {"Login"}, {"Fetch"}, {"Logoff"}, {"Fetch", "Logoff"}}

\* a request: the handler it is routed to, the family from its header, its
\* base URL, its query parameters, and what the backend does while it runs
Request(handler, is_79xx, base_url, index, page, id, n, stride, fails) ==
    [handler |-> handler, is_79xx |-> is_79xx, base_url |-> base_url,
     index |-> index, page |-> page, id |-> id, n |-> n, stride |-> stride,
     fails |-> fails]

EntriesInputs ==
    {Request("directory_entries", f, b, index, page, <<>>, n, stride, fails) :
        f \in BOOLEAN, b \in BaseUrls, index \in {<<>>, <<"1">>, DIAL_INDICES[2], <<"b", "Z">>},
        page \in 0..MaxPage, n \in 0..MaxEntries, stride \in Strides, fails \in Failures}

ParkedInputs ==
    {Request("parked_calls", f, b, <<>>, 1, <<>>, n, stride, fails) :
        f \in BOOLEAN, b \in BaseUrls, n \in 0..MaxCalls, stride \in Strides,
        fails \in Failures}

MenuInputs ==
    {Request(h, f, b, <<>>, 1, <<>>, 0, 1, {}) :
        h \in {"directory_index", "services_menu", "directory_help"},
        f \in BOOLEAN, b \in BaseUrls}

InformationInputs ==
    {Request("help_information", f, b, <<>>, 1, id, n, 1, {}) :
        f \in BOOLEAN, b \in BaseUrls, id \in {<<>>, <<"7">>, <<"7", "x">>}, n \in {0, 1}}

DirInputs == EntriesInputs \cup ParkedInputs \cup MenuInputs \cup InformationInputs

\* the backend calls a request issues
CallsOf(r) ==
    CASE r.handler = "directory_entries" /\ PageAccepted(r.page) /\ r.index # <<>> ->
            SessionCalls("VoicemailUsersList", r.fails)
      [] r.handler = "parked_calls" -> SessionCalls("ParkedCalls", r.fails)
      [] OTHER -> <<>>

\* the response to a request
Respond(r) ==
    CASE r.handler = "directory_entries" ->
            IF ~PageAccepted(r.page) THEN PageRejected
            ELSE IF r.index # <<>> /\ SessionRaises(r.fails)
            THEN ServerError
            ELSE DirectoryEntries(r.is_79xx, r.base_url, r.index, r.page,
                                  GetVoicemailUsers(RawEntries(r.n, r.stride)))
      [] r.handler = "parked_calls" ->
            IF SessionRaises(r.fails)
            THEN ServerError
            ELSE ParkedCalls(r.is_79xx, r.base_url, GetParkedCalls(ParkedEvents(r.n, r.stride)))
      [] r.handler = "directory_index" -> DirectoryIndex(r.is_79xx, r.base_url)
      [] r.handler = "services_menu" -> ServicesMenu(r.is_79xx, r.base_url)
      [] r.handler = "directory_help" -> DirectoryHelp(r.is_79xx)
      [] r.handler = "help_information" -> HelpInformation(r.id, r.n = 1)

\* one request, drawn by the initial state, served by its handler
Handle(handler) ==
    /\ dReq.handler = handler
    /\ dResp.kind = "none"
    /\ dResp' = Respond(dReq)
    /\ dCalls' = CallsOf(dReq)
    /\ UNCHANGED <<dReq, dLog, builderVars, validateVars, flowVars>>

DirectoryEntriesCall == Handle("directory_entries")
DirectoryIndexCall == Handle("directory_index")
DirectoryHelpCall == Handle("directory_help")
ParkedCallsCall == Handle("parked_calls")
ServicesMenuCall == Handle("services_menu")
HelpInformationCall == Handle("help_information")

(***************************************************************************)
(* Requests served one after another by the same process: dLog keeps each  *)
(* request with the response it got.                                       *)
(***************************************************************************)
SeqIndex == DIAL_INDICES[2] \o <<"+", "&", " ">>
SeqInputs ==
    {Request("directory_entries", f, "http://pbx", index, page, <<>>, n, 1, {}) :
        f \in BOOLEAN, index \in {SeqIndex}, page \in 1..3, n \in {MaxEntries}}

\* the request r of the phone, reached by way of via, is served and logged
ServeVia(r, via) ==
    /\ Len(dLog) < MaxServed
    /\ dReq' = r
    /\ dResp' = Respond(r)
    /\ dCalls' = CallsOf(r)
    /\ dLog' = Append(dLog, [req |-> r, resp |-> Respond(r), via |-> via])
    /\ UNCHANGED <<builderVars, validateVars, flowVars>>

Serve(r) == ServeVia(r, "request")

\* the phone's user presses the softkey name of the document just shown:
\* the phone requests the URL of the key, with the headers it always sends
FollowSoftkey(name) ==
    /\ dResp.kind = "directory"
    /\ \E i \in 1..Len(dResp.softkeys) :
          /\ dResp.softkeys[i].name = name
          /\ ServeVia([dReq EXCEPT !.index = UnquotePlus(dResp.softkeys[i].url.index),
                                   !.page = dResp.softkeys[i].url.page], name)

FollowNext == FollowSoftkey("Next")
FollowPrevious == FollowSoftkey("Previous")

(***************************************************************************)
(* routers/quality_report.py, routers/problem_report.py and the backend    *)
(* session of asterisk_manager.py.                                         *)
(*                                                                         *)
(* A request is one task on the event loop.  It runs without interruption  *)
(* from one await to the next, so every action below is the code between   *)
(* two suspension points: the arrival of the request up to the first       *)
(* backend call, then one action per backend reply.  The file append and   *)
(* the response follow the last backend reply with no await in between.    *)
(***************************************************************************)
Chars_qrt == <<"q", "r", "t", "-">>
Chars_json == <<".", "j", "s", "o", "n">>
Chars_prt == <<"p", "r", "t", "-">>
Chars_targz == <<".", "t", "a", "r", ".", "g", "z">>

\* datetime.now().strftime("%Y%m%d%H%M%S"), the clock counting the seconds
\* of one minute
StrftimeCompact(t) ==
    <<"2", "0", "2", "6", "0", "1", "0", "1", "0", "0", "0", "0">>
        \o <<DigitChars[(t \div 10) + 1], DigitChars[(t % 10) + 1]>>

\* datetime.now().strftime("%Y-%m-%d %H:%M:%S")
StrftimeLog(t) ==
    <<"2026-01-01 00:00:", DigitChars[(t \div 10) + 1], DigitChars[(t % 10) + 1]>>

\* one log shared by every device
QrtFileNameShared(name) == Chars_qrt \o Chars_json

\* settings.reports_dir / f"qrt-{name}.json"
QrtFileName(name) == Chars_qrt \o name \o Chars_json

\* f"prt-{device_name}-{timestamp}.tar.gz"
PrtFileName(device_name, timestamp) ==
    Chars_prt \o device_name \o <<"-">> \o timestamp \o Chars_targz

REPORT_REASONS ==
    [c \in {"0", "1", "2", "3", "4"} |->
        CASE c = "0" -> "Audio had echo"
          [] c = "1" -> "Audio had crackling"
          [] c = "2" -> "I could not hear them"
          [] c = "3" -> "They could not hear me"
          [] c = "4" -> "Other issue (unspecified)"]

InvalidDevice == [status |-> 403, kind |-> "plain", body |-> "Invalid device"]
MissingReport == [status |-> 500, kind |-> "plain", body |-> "Missing problem report"]
LogSaved == [status |-> 200, kind |-> "plain", body |-> "Log saved"]

\* quality_report: the reason menu
QualityReportMenu(is_79xx, name) ==
    [status |-> 200, kind |-> "menu", is_79xx |-> is_79xx, title |-> "Quality Report",
     items |-> [i \in 1..5 |->
                  [name |-> REPORT_REASONS[DigitChars[i]],
                   url |-> [action |-> "QueryStringParam", reason |-> DigitChars[i]]]],
     softkeys |->
        << Softkey("Submit", [path |-> "/quality-report/send", name |-> name],
                   SoftkeyPosition(is_79xx, "select")),
           Softkey("Exit", "Init:Services", SoftkeyPosition(is_79xx, "exit")) >>]

\* the confirmation built at the end of quality_report_send
QualityReportText(is_79xx, reason_text) ==
    [status |-> 200, kind |-> "text", is_79xx |-> is_79xx, title |-> "Quality Report",
     text |-> <<reason_text, " has been reported.">>,
     softkeys |-> <<Softkey("Exit", "Init:Services", SoftkeyPosition(is_79xx, "exit"))>>]

\* what get_sip_peer_by_device returns when the peer is found
PeerInfo ==
    [ip_address |-> "10.0.0.5", status |-> "OK (12 ms)", rtp_rx_stat |-> "rx", rtp_tx_stat |-> "tx"]
NoPeerInfo ==
    [ip_address |-> Null, status |-> Null, rtp_rx_stat |-> Null, rtp_tx_stat |-> Null]

\* json.dumps({...}) + "\n": one line of text and its terminator.  rid and
\* after are history: the request that wrote the line and the requests that
\* had been answered when it arrived.
JsonLineUnterminated(r, timestamp, reason_text) ==
    << [t |-> "json", rid |-> r.id, after |-> r.doneBefore, timestamp |-> timestamp,
        ip_address |-> r.info.ip_address, status |-> r.info.status,
        reason |-> reason_text,
        rtp_rx_stat |-> r.info.rtp_rx_stat, rtp_tx_stat |-> r.info.rtp_tx_stat] >>

JsonLine(r, timestamp, reason_text) ==
    JsonLineUnterminated(r, timestamp, reason_text) \o << [t |-> "nl"] >>

FileContent(files, f) == IF f \in DOMAIN files THEN files[f] ELSE <<>>

PutFile(files, f, content) ==
    [g \in DOMAIN files \cup {f} |-> IF g = f THEN content ELSE files[g]]

\* open(f, "w"): the file is truncated before the line is written
OpenTruncating(files, f, data) == PutFile(files, f, data)

\* new data put in front of what the file holds
OpenAppendAtFront(files, f, data) == PutFile(files, f, data \o FileContent(files, f))

\* with open(f, "a") as h: h.write(data) -- the file is created if missing,
\* the buffered data reaches the end of the file in one write at close
OpenAppend(files, f, data) == PutFile(files, f, FileContent(files, f) \o data)

\* the record reaches the file, the newline after it does not
WriteFailsMidway(files, f, data) == PutFile(files, f, FileContent(files, f) \o <<data[1]>>)

\* with open(f, "a") as h: h.write(data) where the one write of the
\* buffered line at close raises OSError: open() has created the file if
\* it was missing, nothing of the line is in it
WriteFails(files, f, data) == PutFile(files, f, FileContent(files, f))

\* with open(f, "wb") as h: h.write(content)
OpenWriteBinary(files, f, content) == PutFile(files, f, content)

\* lines 61-64 of quality_report_send: the four locals start as None
InitialLocalsUnknown ==
    [ip_address |-> "0.0.0.0", status |-> "UNKNOWN", rtp_rx_stat |-> Null, rtp_tx_stat |-> Null]

InitialLocals == NoPeerInfo

\* a request-handling task: its inputs (device name, reason code, family
\* header), its position (pc), its locals, and
\* the httpx client of its backend session (none, open, closed), and
\* history: the backend calls that failed (a non-empty set is an exception
\* on its way to the handler's except), whether open() raised, the number
\* of backend calls issued, the file it wrote, and for a submission the
\* requests answered before it arrived
NewTask(kind, name, reason, is_79xx) ==
    [id |-> Len(req) + 1, kind |-> kind, name |-> name, reason |-> reason,
     is_79xx |-> is_79xx, pc |-> "start",
     info |-> InitialLocals, target |-> <<>>, client |-> "none",
     failed |-> {}, oserror |-> FALSE, calls |-> 0, wrote |-> FALSE, resp |-> NoResponse,
     doneBefore |-> IF kind = "quality_report_send"
                    THEN {i \in 1..Len(req) : req[i].pc = "done"}
                    ELSE {}]

\* a task that has answered is gone; its slot keeps only that it is done
DoneTask == [pc |-> "done"]
NoTask == [id |-> 0, kind |-> "none", name |-> <<>>, resp |-> NoResponse]

\* the task answers: out is the finished task with its response
Finished(r, resp) == [r EXCEPT !.pc = "done", !.resp = resp]

\* two HTTP calls sent to the backend at once
CallBackendPair(r, pc) == [r EXCEPT !.pc = pc, !.calls = @ + 2]

\* one more HTTP call to the backend is in flight
CallBackend(r, pc) == [r EXCEPT !.pc = pc, !.calls = @ + 1]

\* __aenter__: self._client = httpx.AsyncClient(timeout=5.0)
NewClient(r) == [r EXCEPT !.client = "open"]

\* __aexit__: finally: await self._client.aclose()
CloseClient(r) == [r EXCEPT !.client = "closed"]

FlowInputNames == {D1, D1 \o <<NL>>, SubSeq(D1, 1, 6), <<".", ".", "/">> \o D1}
FlowReasons == {"0"}
FlowFamilies == {FALSE}

\* the arrival of a request answered at once
AnswerAtOnce(r, resp) ==
    /\ req' = Append(req, DoneTask)
    /\ out' = Finished(r, resp)

\* datetime.now(): the clock is looked at only here; since the last look it
\* has stayed in the same second or moved on
ClockReadings == {t \in {now, now + 1} : t <= MaxClock}

\* reason_text = REPORT_REASONS.get(reason, ""), then the append to the
\* device's log and the confirmation; an OSError from open() leaves the
\* handler and the framework answers 500
FinishSend(id, r) ==
    \E storage \in {"ok", "open_fails", "write_fails"}, t \in ClockReadings :
        LET reason_text == DictGet(REPORT_REASONS, r.reason, "")
            log_file == QrtFileName(r.name)
        IN  /\ req' = [req EXCEPT ![id] = DoneTask]
            /\ now' = (IF storage = "ok" THEN t ELSE now)
            /\ IF storage = "ok"
               THEN /\ fs' = OpenAppend(fs, log_file,
                                        JsonLine(r, StrftimeLog(t), reason_text))
                    /\ accepted' = [f \in DOMAIN accepted \cup {log_file} |->
                                      IF f = log_file
                                      THEN FileContent(accepted, f) \o <<id>>
                                      ELSE accepted[f]]
                    /\ out' = Finished([r EXCEPT !.wrote = TRUE, !.target = log_file],
                                       QualityReportText(r.is_79xx, reason_text))
               ELSE /\ fs' = (IF storage = "open_fails" THEN fs
                            ELSE WriteFails(fs, log_file,
                                            JsonLine(r, StrftimeLog(now), reason_text)))
                    /\ accepted' = accepted
                    /\ out' = Finished([r EXCEPT !.oserror = TRUE, !.target = log_file],
                                       ServerError)

\* GET /quality-report
QualityReport(name, is_79xx) ==
    /\ Len(req) < MaxReq
    /\ LET r == NewTask("quality_report", name, "", is_79xx)
       IN  IF ~ValidateDeviceName(name)
           THEN AnswerAtOnce(r, InvalidDevice)
           ELSE AnswerAtOnce(r, QualityReportMenu(is_79xx, name))
    /\ UNCHANGED <<fs, now, accepted, builderVars, validateVars, dirVars>>

\* GET /quality-report/send without the device check
QualityReportSendUnchecked(name, reason, is_79xx) ==
    /\ Len(req) < MaxReq
    /\ req' = Append(req, CallBackend(NewClient(NewTask("quality_report_send", name,
                                                        reason, is_79xx)),
                                      "login"))
    /\ UNCHANGED <<out, fs, now, accepted, builderVars, validateVars, dirVars>>

\* GET /quality-report/send, up to the Login call of __aenter__
QualityReportSend(name, reason, is_79xx) ==
    /\ Len(req) < MaxReq
    /\ LET r == NewTask("quality_report_send", name, reason, is_79xx)
       IN  IF ~ValidateDeviceName(name)
           THEN AnswerAtOnce(r, InvalidDevice)
           ELSE /\ req' = Append(req, CallBackend(NewClient(r), "login"))
                /\ out' = out
    /\ UNCHANGED <<fs, now, accepted, builderVars, validateVars, dirVars>>

\* __aenter__: the Login reply; raise_for_status or a timeout raises out of
\* the "async with" before its body runs, and the handler's except takes it
LoginReply(id) ==
    /\ req[id].pc = "login"
    /\ \E ok \in BOOLEAN :
        IF ok
        THEN /\ req' = [req EXCEPT ![id] = CallBackend(req[id], "sippeers")]
             /\ UNCHANGED <<out, fs, accepted, now>>
        ELSE FinishSend(id, [req[id] EXCEPT !.failed = @ \cup {"Login"}])
    /\ UNCHANGED <<builderVars, validateVars, dirVars>>

\* get_sip_peer_by_device: the SIPPeers reply.  Leaving the body of the
\* "async with" (by return or by exception) runs __aexit__, whose first
\* step is the Logoff call.
SipPeersReply(id) ==
    /\ req[id].pc = "sippeers"
    /\ \E outcome \in {"found", "absent", "fail"} :
        req' = [req EXCEPT ![id] =
                  CASE outcome = "found" -> CallBackend(@, "showpeer")
                    [] outcome = "absent" -> CallBackend(@, "logoff")
                    [] outcome = "fail" ->
                         CallBackend([@ EXCEPT !.failed = @ \cup {"SIPPeers"}],
                                     "logoff")]
    /\ UNCHANGED <<out, fs, now, accepted, builderVars, validateVars, dirVars>>

\* get_sip_peer_by_device: the SIPShowPeer reply, then lines 69-73 of the
\* handler when a peer was returned
ShowPeerReply(id) ==
    /\ req[id].pc = "showpeer"
    /\ \E outcome \in {"peer", "absent", "fail"} :
        req' = [req EXCEPT ![id] =
                  CASE outcome = "peer" -> CallBackend([@ EXCEPT !.info = PeerInfo], "logoff")
                    [] outcome = "absent" -> CallBackend(@, "logoff")
                    [] outcome = "fail" ->
                         CallBackend([@ EXCEPT !.failed = @ \cup {"SIPShowPeer"}],
                                     "logoff")]
    /\ UNCHANGED <<out, fs, now, accepted, builderVars, validateVars, dirVars>>

\* __aexit__: the Logoff reply (its status is not checked; a transport
\* error or timeout raises), the client closed, then the rest of the
\* handler: a pending or new exception is swallowed by "except Exception"
LogoffReply(id) ==
    /\ req[id].pc = "logoff"
    /\ \E ok \in BOOLEAN :
        FinishSend(id, IF ok THEN CloseClient(req[id])
                       ELSE CloseClient([req[id] EXCEPT !.failed = @ \cup {"Logoff"}]))
    /\ UNCHANGED <<builderVars, validateVars, dirVars>>

\* POST /problem-report, up to "await prt_file.read()"
ProblemReport(devicename, upload) ==
    /\ Len(req) < MaxReq
    /\ LET r == NewTask("problem_report", devicename, "", FALSE)
           device_name == Strip(devicename)
       IN  IF ~ValidateDeviceName(device_name)
           THEN AnswerAtOnce(r, InvalidDevice) /\ now' = now
           ELSE IF ~upload
           THEN AnswerAtOnce(r, MissingReport) /\ now' = now
           ELSE \E t \in ClockReadings :
                /\ req' = Append(req,
                        [r EXCEPT !.pc = "read",
                                  !.target = PrtFileName(device_name, StrftimeCompact(t))])
                /\ out' = out
                /\ now' = t
    /\ UNCHANGED <<fs, accepted, builderVars, validateVars, dirVars>>

\* problem_report after the upload was read: the bundle is written
ProblemReportSave(id) ==
    /\ req[id].pc = "read"
    /\ req' = [req EXCEPT ![id] = DoneTask]
    /\ \E storage \in {"ok", "fail"} :
        IF storage = "ok"
        THEN /\ fs' = OpenWriteBinary(fs, req[id].target, <<[t |-> "bin", rid |-> id]>>)
             /\ out' = Finished([req[id] EXCEPT !.wrote = TRUE], LogSaved)
        ELSE /\ fs' = fs
             /\ out' = Finished([req[id] EXCEPT !.oserror = TRUE], ServerError)
    /\ UNCHANGED <<now, accepted, builderVars, validateVars, dirVars>>

(***************************************************************************)
(* Initial states and specifications.                                      *)
(***************************************************************************)
IdleBuilder ==
    /\ doc = NewBuilder(FALSE)
    /\ lastCall = [role |-> Null, position |-> Null]
    /\ xml = NotBuilt
    /\ softkeyFirst = FALSE
IdleValidate == vName = <<>> /\ vResult = [done |-> TRUE, value |-> FALSE]
IdleRequest == Request("directory_index", FALSE, "http://pbx", <<>>, 1, <<>>, 0, 1, {})
IdleDir ==
    /\ dReq = IdleRequest
    /\ dResp = Respond(IdleRequest)
    /\ dCalls = <<>>
    /\ dLog = <<>>
IdleFlow == req = <<>> /\ out = NoTask /\ accepted = <<>> /\ fs = <<>> /\ now = 0

InitBuilder ==
    /\ doc \in {NewBuilder(f) : f \in BOOLEAN}
    /\ lastCall = [role |-> Null, position |-> Null]
    /\ xml = NotBuilt
    /\ softkeyFirst = FALSE
    /\ IdleValidate /\ IdleDir /\ IdleFlow

NextBuilder ==
    \E role \in Roles \cup OtherRoles, name \in {"Exit", "Next"} :
        AddSoftkey(name, "Init:Services", role)

SpecBuilder == InitBuilder /\ [][NextBuilder]_vars

InitBuild ==
    /\ doc \in NewDocuments
    /\ lastCall = [role |-> Null, position |-> Null]
    /\ xml = NotBuilt
    /\ softkeyFirst = FALSE
    /\ IdleValidate /\ IdleDir /\ IdleFlow

NextBuild ==
    \/ \E k \in SoftkeyInputs : AddSoftkey(k.name, k.url, k.role)
    \/ \E name \in ItemNames, url \in ItemUrls : AddItem(name, url)
    \/ \E name \in ItemNames, telephone \in Telephones : AddEntry(name, telephone)
    \/ BuildCall

SpecBuild == InitBuild /\ [][NextBuild]_vars

InitValidate ==
    /\ vName \in CandidateNames
    /\ vResult = [done |-> FALSE, value |-> FALSE]
    /\ IdleBuilder /\ IdleDir /\ IdleFlow

NextValidate == ValidateCall

SpecValidate == InitValidate /\ [][NextValidate]_vars

InitDir ==
    /\ dReq \in DirInputs
    /\ dResp = NoResponse
    /\ dCalls = <<>>
    /\ dLog = <<>>
    /\ IdleBuilder /\ IdleValidate /\ IdleFlow

NextDir ==
    \/ DirectoryEntriesCall
    \/ DirectoryIndexCall
    \/ DirectoryHelpCall
    \/ ParkedCallsCall
    \/ ServicesMenuCall
    \/ HelpInformationCall

SpecDir == InitDir /\ [][NextDir]_vars

InitDirSeq == IdleDir /\ IdleBuilder /\ IdleValidate /\ IdleFlow

NextDirSeq ==
    \/ \E r \in SeqInputs : Serve(r)
    \/ FollowNext
    \/ FollowPrevious

SpecDirSeq == InitDirSeq /\ [][NextDirSeq]_vars

InitFlow == IdleFlow /\ IdleBuilder /\ IdleValidate /\ IdleDir

Next ==
    \/ \E name \in FlowInputNames, is_79xx \in FlowFamilies : QualityReport(name, is_79xx)
    \/ \E name \in FlowInputNames, reason \in FlowReasons, is_79xx \in FlowFamilies :
            QualityReportSend(name, reason, is_79xx)
    \/ \E name \in FlowInputNames, upload \in BOOLEAN : ProblemReport(name, upload)
    \/ \E id \in 1..Len(req) : LoginReply(id)
    \/ \E id \in 1..Len(req) : SipPeersReply(id)
    \/ \E id \in 1..Len(req) : ShowPeerReply(id)
    \/ \E id \in 1..Len(req) : LogoffReply(id)
    \/ \E id \in 1..Len(req) : ProblemReportSave(id)

Spec == InitFlow /\ [][Next]_vars

\* quality reports of one valid device, sent one after the other, with
\* every reason code of the menu, a code outside the table and no code
ReasonInputs == DOMAIN REPORT_REASONS \cup {"9", ""}
NextReason ==
    \/ /\ \A id \in 1..Len(req) : req[id].pc = "done"
       /\ \E reason \in ReasonInputs, is_79xx \in FlowFamilies :
              QualityReportSend(D1, reason, is_79xx)
    \/ \E id \in 1..Len(req) : LoginReply(id)
    \/ \E id \in 1..Len(req) : SipPeersReply(id)
    \/ \E id \in 1..Len(req) : ShowPeerReply(id)
    \/ \E id \in 1..Len(req) : LogoffReply(id)

SpecReason == InitFlow /\ [][NextReason]_vars

\* the application with all its document routers: one request to the
\* directory, services or information router, or, with none of those
\* pending, quality reports of one device from phones of both families
NextReports ==
    \/ \E is_79xx \in BOOLEAN : QualityReport(D1, is_79xx)
    \/ \E reason \in FlowReasons, is_79xx \in BOOLEAN : QualityReportSend(D1, reason, is_79xx)
    \/ \E id \in 1..Len(req) : LoginReply(id)
    \/ \E id \in 1..Len(req) : SipPeersReply(id)
    \/ \E id \in 1..Len(req) : ShowPeerReply(id)
    \/ \E id \in 1..Len(req) : LogoffReply(id)

InitApp == InitDir
NextApp ==
    \/ NextDir
    \/ dReq = IdleRequest /\ dResp.kind # "none" /\ NextReports

SpecApp == InitApp /\ [][NextApp]_vars

(***************************************************************************)
(* Claims.                                                                 *)
(***************************************************************************)

\* C1: softkey_position returns the fixed table value of the builder's
\* family for the five known roles (79xx: exit 3, select 1, update 2, next 2,
\* previous 4; modern: exit 1, select 2, update 3, next 3, previous 4) and
\* "1" for every other role string, in both families.
C1_PositionTable ==
    lastCall.role # Null =>
        LET r == lastCall.role
            p == lastCall.position
        IN  /\ (doc.is_79xx /\ r = "exit") => p = "3"
            /\ (doc.is_79xx /\ r = "select") => p = "1"
            /\ (doc.is_79xx /\ r = "update") => p = "2"
            /\ (doc.is_79xx /\ r = "next") => p = "2"
            /\ (doc.is_79xx /\ r = "previous") => p = "4"
            /\ (~doc.is_79xx /\ r = "exit") => p = "1"
            /\ (~doc.is_79xx /\ r = "select") => p = "2"
            /\ (~doc.is_79xx /\ r = "update") => p = "3"
            /\ (~doc.is_79xx /\ r = "next") => p = "3"
            /\ (~doc.is_79xx /\ r = "previous") => p = "4"
            /\ r \notin {"exit", "select", "update", "next", "previous"} => p = "1"
            /\ doc.softkeys[Len(doc.softkeys)].position = p

C1_Witness ==
    /\ doc.is_79xx
    /\ lastCall.role = "help" /\ lastCall.position = "1"
    /\ \E i \in 1..Len(doc.softkeys) : doc.softkeys[i].position = "3"
    /\ \E i \in 1..Len(doc.softkeys) : doc.softkeys[i].position = "4"

\* C2: directory_entries, page size 10: for a filtered list of L entries and
\* a requested page R >= 1, totalPages = max(1, ceil(L/10)), the effective
\* page is min(R, totalPages) and lies in 1..totalPages, the slice holds
\* min(10, L - (page-1)*10) entries, L = 0 gives one empty page, and a
\* requested page past the end shows the last page, not an empty one.
C2_Pagination ==
    dReq.handler = "directory_entries" /\ dResp.kind = "directory" =>
        LET L == dResp.filtered
            R == dReq.page
            T == dResp.total_pages
            P == dResp.page
            shown == Len(dResp.entries)
        IN  /\ T >= 1
            /\ (L = 0 => T = 1 /\ shown = 0)
            /\ (L > 0 => (T - 1) * 10 < L /\ L <= T * 10)
            /\ P = (IF R <= T THEN R ELSE T)
            /\ P \in 1..T
            /\ shown = (IF L - (P - 1) * 10 < 10 THEN L - (P - 1) * 10 ELSE 10)
            /\ (R > T /\ L > 0 => P = T /\ shown > 0)

C2_Witness ==
    /\ dReq.handler = "directory_entries"
    /\ dResp.kind = "directory"
    /\ dResp.total_pages = 3
    /\ dReq.page > dResp.total_pages
    /\ dResp.page = 3
    /\ Len(dResp.entries) \in 1..9

\* C9: validate_device_name accepts a string if and only if it is exactly
\* 15 characters long, "SEP" followed by 12 characters of 0-9 and A-F; a
\* string with any extra leading or trailing character is rejected.
IsSepAndTwelveHex(s) ==
    /\ Len(s) = 15
    /\ s[1] = "S" /\ s[2] = "E" /\ s[3] = "P"
    /\ \A i \in 4..15 : s[i] \in HexChars

C9_AcceptsExactlyWellFormed ==
    vResult.done => (vResult.value <=> IsSepAndTwelveHex(vName))

\* Helpers of the claims about the reports directory.
IsQrtFile(f) == Len(f) >= 4 /\ SubSeq(f, 1, 4) = <<"q", "r", "t", "-">>
IsPrefixOf(a, b) == Len(a) <= Len(b) /\ SubSeq(b, 1, Len(a)) = a
\* the name a handler validates: problem_report strips its form field first
CheckedName(task) == IF task.kind = "problem_report" THEN Strip(task.name) ELSE task.name
\* a request was answered in this step
Answered == out'.id # out.id
AllNull(line) ==
    /\ line.ip_address = "null" /\ line.status = "null"
    /\ line.rtp_rx_stat = "null" /\ line.rtp_tx_stat = "null"
\* the last line of the quality log of the task answered last
LastLineOf(task) == LET c == fs[QrtFileName(task.name)] IN c[Len(c) - 1]
LinesBy(task) ==
    LET c == fs[QrtFileName(task.name)]
    IN  {i \in 1..Len(c) : c[i].t = "json" /\ c[i].rid = task.id}
ConfirmsReason(task) ==
    /\ task.resp.status = 200 /\ task.resp.kind = "text"
    /\ task.resp.text[1] = (IF task.reason = "0" THEN "Audio had echo" ELSE "")

\* C3: in quality_report, quality_report_send and problem_report a request
\* whose device identifier fails validation is answered 403 with a plain
\* (non-XML) body in the very step in which it arrives: before any backend
\* call is issued and with every file of the reports directory unchanged.
C3_InvalidDeviceRejectedFirst ==
    [][ (Answered /\ ~ValidateDeviceName(CheckedName(out'))) =>
            /\ out'.resp.status = 403 /\ out'.resp.kind = "plain"
            /\ out'.id = Len(req) + 1
            /\ out'.calls = 0
            /\ fs' = fs ]_vars

C3_Witness ==
    /\ out.kind = "quality_report_send"
    /\ ~ValidateDeviceName(out.name)
    /\ out.resp.status = 403
    /\ out.id = 2
    /\ fs # <<>>

\* C4 (as claimed): in quality_report_send with a valid device identifier,
\* whenever a backend call of the session fails -- whichever call it is --
\* the request appends one record whose four quality fields are all null
\* and returns the TextDocument with the reason text.
C4_AnyBackendFailureGivesNullFields ==
    (out.kind = "quality_report_send" /\ ValidateDeviceName(out.name)
        /\ out.failed # {} /\ ~out.oserror) =>
            /\ ConfirmsReason(out)
            /\ Cardinality(LinesBy(out)) = 1
            /\ LastLineOf(out).rid = out.id
            /\ AllNull(LastLineOf(out))

\* C4 (amended): when the Login, SIPPeers or SIPShowPeer call fails, the
\* record appended has its four quality fields null; when only the Logoff
\* call fails, the record carries what the lookup returned.  In both cases
\* (the log being writable) exactly one record is appended and the
\* TextDocument with the reason text is returned.
C4_LookupFailureGivesNullFields ==
    (out.kind = "quality_report_send" /\ ValidateDeviceName(out.name)
        /\ out.failed # {} /\ ~out.oserror) =>
            /\ ConfirmsReason(out)
            /\ Cardinality(LinesBy(out)) = 1
            /\ LastLineOf(out).rid = out.id
            /\ (out.failed \cap {"Login", "SIPPeers", "SIPShowPeer"} # {}
                    => AllNull(LastLineOf(out)))
            /\ (out.failed = {"Logoff"} =>
                    /\ LastLineOf(out).ip_address = out.info.ip_address
                    /\ LastLineOf(out).status = out.info.status
                    /\ LastLineOf(out).rtp_rx_stat = out.info.rtp_rx_stat
                    /\ LastLineOf(out).rtp_tx_stat = out.info.rtp_tx_stat)

C4_Witness ==
    /\ out.kind = "quality_report_send"
    /\ out.failed = {"SIPShowPeer", "Logoff"}
    /\ out.wrote
    /\ out.resp.kind = "text"
    /\ AllNull(LastLineOf(out))

\* C5: under any interleaving of concurrent quality_report_send requests
\* for one device, the device's log is at every moment a sequence of whole
\* lines: each a JSON text followed by its newline, never two records
\* interleaved, never a partial line.
C5_LogIsWholeLines ==
    \A f \in DOMAIN fs :
        IsQrtFile(f) =>
            /\ Len(fs[f]) % 2 = 0
            /\ \A i \in 1..Len(fs[f]) :
                fs[f][i].t = (IF i % 2 = 1 THEN "json" ELSE "nl")

C5_Witness ==
    \E f \in DOMAIN fs :
        /\ IsQrtFile(f)
        /\ Len(fs[f]) = 4
        /\ fs[f][1].rid \notin fs[f][3].after
        /\ fs[f][3].rid \notin fs[f][1].after

\* C6 (as claimed): if a device makes submission A before submission B,
\* A's record precedes B's in the device's log, under every interleaving of
\* the two requests' backend lookups.
C6_LogInSubmissionOrder ==
    \A f \in DOMAIN fs :
        IsQrtFile(f) =>
            \A i, j \in 1..Len(fs[f]) :
                (i < j /\ fs[f][i].t = "json" /\ fs[f][j].t = "json")
                    => fs[f][i].rid < fs[f][j].rid

\* C6 (amended): if a device's submission A was answered before its
\* submission B arrived, A's record precedes B's in the device's log.
C6_LogInOrderOfSequentialSubmissions ==
    \A f \in DOMAIN fs :
        IsQrtFile(f) =>
            \A i, j \in 1..Len(fs[f]) :
                (i < j /\ fs[f][i].t = "json" /\ fs[f][j].t = "json")
                    => fs[f][j].rid \notin fs[f][i].after

C6_Witness ==
    \E f \in DOMAIN fs :
        /\ IsQrtFile(f)
        /\ Len(fs[f]) = 4
        /\ fs[f][1].rid \in fs[f][3].after

\* C7: every quality_report_send answered with the confirmation appends
\* exactly one record {timestamp, ip_address, status, reason, rtp_rx_stat,
\* rtp_tx_stat} as one line at the end of qrt-<device>.json; no other step
\* changes a quality log, so no earlier record is changed or removed; and
\* the line count of a log is the number of confirmed submissions for it.
RecordFields == {"timestamp", "ip_address", "status", "reason", "rtp_rx_stat", "rtp_tx_stat"}
C7_LineCount ==
    \A f \in DOMAIN fs \cup DOMAIN accepted :
        IsQrtFile(f) => Len(FileContent(fs, f)) = 2 * Len(FileContent(accepted, f))
C7_Step ==
    \A f \in DOMAIN fs \cup DOMAIN fs' :
        IsQrtFile(f) =>
            LET old == FileContent(fs, f)
                new == FileContent(fs', f)
            IN  IF /\ Answered /\ out'.kind = "quality_report_send"
                   /\ out'.resp.kind = "text" /\ f = QrtFileName(out'.name)
                THEN /\ Len(new) = Len(old) + 2
                     /\ IsPrefixOf(old, new)
                     /\ new[Len(new) - 1].t = "json" /\ new[Len(new)].t = "nl"
                     /\ new[Len(new) - 1].rid = out'.id
                     /\ DOMAIN new[Len(new) - 1] \ {"t", "rid", "after"} = RecordFields
                     /\ accepted'[f] = FileContent(accepted, f) \o <<out'.id>>
                ELSE /\ new = old
                     /\ FileContent(accepted', f) = FileContent(accepted, f)
C7_OneLinePerAcceptedSend == []C7_LineCount /\ [][C7_Step]_vars

C7_Witness ==
    \E f \in DOMAIN fs :
        /\ IsQrtFile(f)
        /\ Len(fs[f]) = 4
        /\ Len(accepted[f]) = 2
        /\ fs[f][1].timestamp # fs[f][3].timestamp
        /\ out.kind = "quality_report_send" /\ out.target = f

\* C8: content once written under the reports directory is never
\* truncated, overwritten or deleted by a later request: every file stays,
\* and its earlier content stays a prefix of its content (a stored
\* problem-report bundle, being one chunk, is never replaced).
C8_ReportsNeverOverwritten ==
    [][ \A f \in DOMAIN fs : f \in DOMAIN fs' /\ IsPrefixOf(fs[f], fs'[f]) ]_vars

\* C10: every file quality_report_send or problem_report creates or writes
\* is a direct child of the reports directory: its name, built from the
\* device identifier, holds no path separator and is no parent-directory
\* reference.
IsPlainChildName(f) ==
    /\ f # <<>>
    /\ \A i \in 1..Len(f) : f[i] \notin {"/", "\\"}
    /\ f \notin {<<".">>, <<".", ".">>}
C10_FilesAreDirectChildren ==
    /\ \A f \in DOMAIN fs : IsPlainChildName(f)
    /\ \A i \in 1..Len(req) : req[i].pc = "read" => IsPlainChildName(req[i].target)

C10_Witness ==
    /\ \E f \in DOMAIN fs : IsQrtFile(f) /\ \E i \in 1..Len(f) : f[i] = NL
    /\ \E f \in DOMAIN fs : ~IsQrtFile(f)

(***************************************************************************)
(* Claims about the directory and services handlers.                       *)
(***************************************************************************)
IsListing == dReq.handler = "directory_entries" /\ dResp.kind = "directory"
HasKey(name) == \E i \in 1..Len(dResp.softkeys) : dResp.softkeys[i].name = name
\* the pages a filtered list of L entries has, and the page shown for R
PagesFor(L) == IF L = 0 THEN 1 ELSE (L + 9) \div 10
ShownPage(R, L) == IF R <= PagesFor(L) THEN R ELSE PagesFor(L)

\* C11: directory_entries adds the Next softkey iff the effective page is
\* before the last page and the Previous softkey iff the effective page is
\* after the first; an empty or single-page result has neither.
C11_NextPreviousSoftkeys ==
    IsListing =>
        LET L == dResp.filtered
            P == ShownPage(dReq.page, L)
        IN  /\ HasKey("Next") <=> P < PagesFor(L)
            /\ HasKey("Previous") <=> P > 1
            /\ L <= 10 => ~HasKey("Next") /\ ~HasKey("Previous")

C11_Witness ==
    /\ IsListing
    /\ dResp.filtered > 20
    /\ dReq.page = 2
    /\ HasKey("Next") /\ HasKey("Previous")

\* the name with every letter upper-cased, for a comparison that ignores case
FoldCase(name) == [i \in 1..Len(name) |-> Upper(name[i])]

\* C12: the entries shown by directory_entries are in ascending order of
\* display name under a comparison that ignores case (alan, Alice, Bob).
C12_SortedIgnoringCase ==
    IsListing =>
        \A i \in 1..Len(dResp.entries), j \in 1..Len(dResp.entries) :
            i < j => ~StrLess(FoldCase(dResp.entries[j].name), FoldCase(dResp.entries[i].name))

\* the entry is one the filter of the request keeps
FirstCharIn(name, index) ==
    /\ name # <<>>
    /\ \E k \in 1..Len(index) :
          \/ index[k] = name[1] /\ ~\E l \in 1..Len(LowerChars) : LowerChars[l] = name[1]
          \/ \E l \in 1..Len(LowerChars) : LowerChars[l] = name[1] /\ UpperChars[l] = index[k]
BackendList == RawEntries(dReq.n, dReq.stride)

\* C13: directory_entries keeps exactly the backend entries whose display
\* name is non-empty and whose first character, upper-cased, is literally one
\* of the characters of the index string; no other entry is on any page.
C13_FilterByFirstCharacter ==
    IsListing =>
        /\ dResp.filtered =
             Cardinality({i \in 1..dReq.n : FirstCharIn(BackendList[i].name, dReq.index)})
        /\ \A i \in 1..Len(dResp.entries) :
              /\ FirstCharIn(dResp.entries[i].name, dReq.index)
              /\ \E k \in 1..dReq.n :
                    /\ BackendList[k].mailbox = dResp.entries[i].telephone
                    /\ BackendList[k].name = dResp.entries[i].name
        /\ \A i \in 1..Len(dResp.entries), j \in 1..Len(dResp.entries) :
              i # j => dResp.entries[i].telephone # dResp.entries[j].telephone

C13_Witness ==
    /\ IsListing
    /\ dReq.index = DIAL_INDICES[2]
    /\ dReq.n = 8
    /\ dResp.filtered = 6
    /\ \E i \in 1..Len(dResp.entries) : dResp.entries[i].name[1] = "2"
    /\ \E i \in 1..Len(dResp.entries) : dResp.entries[i].name[1] = "a"

UsesBackend ==
    \/ dReq.handler = "directory_entries" /\ dReq.index # <<>> /\ dReq.page >= 1
    \/ dReq.handler = "parked_calls"
FetchFails == "Login" \in dReq.fails \/ "Fetch" \in dReq.fails

\* C14: in directory_entries with a filter and in parked_calls, when the
\* backend fetch fails the request is answered with a plain server error:
\* no directory document, and no empty listing, is returned.
C14_FetchFailureFailsRequest ==
    dResp.kind # "none" /\ UsesBackend /\ FetchFails =>
        /\ dResp.status = 500
        /\ dResp.kind = "plain"

C14_Witness ==
    /\ dReq.handler = "parked_calls"
    /\ dReq.fails = {"Fetch"}
    /\ dReq.n > 0
    /\ dCalls = <<"Login", "ParkedCalls", "Logoff">>
    /\ dResp.status = 500

\* C15: directory_entries with a missing or empty index answers with the
\* document of directory_index for the same family and base URL (the menu
\* "Local Directory" of the ten dial-pad groups), whatever page the handler
\* was asked for (a page of 1 or more: the framework answers a smaller one
\* itself), and issues no backend call.
C15_EmptyIndexGivesIndexMenu ==
    dReq.handler = "directory_entries" /\ dReq.index = <<>> /\ dReq.page >= 1
    /\ dResp.kind # "none" =>
        /\ dResp = DirectoryIndex(dReq.is_79xx, dReq.base_url)
        /\ dResp.kind = "menu"
        /\ dResp.title = "Local Directory"
        /\ Len(dResp.items) = 10
        /\ \A i \in 1..10 : dResp.items[i].url.base = dReq.base_url
        /\ dCalls = <<>>

C15_Witness ==
    /\ dReq.handler = "directory_entries"
    /\ dReq.index = <<>>
    /\ dReq.page = 3
    /\ dReq.is_79xx
    /\ dReq.fails = {"Login"}
    /\ dResp.kind = "menu"
    /\ dResp.softkeys[1].position = "3"

Opens(tokens, tag) == {i \in 1..Len(tokens) : tokens[i] = Open(tag)}
DepthAt(tokens, i) ==
    Cardinality({j \in 1..(i - 1) : tokens[j].t = "open"})
        - Cardinality({j \in 1..(i - 1) : tokens[j].t = "close"})
\* the elements directly under the root element
ChildrenOf(tokens) == {i \in 1..Len(tokens) : tokens[i].t = "open" /\ DepthAt(tokens, i) = 1}
\* the character data of the element opened at i (an element without children)
EndOf(tokens, i) == CHOOSE j \in (i + 1)..Len(tokens) :
                    /\ tokens[j].t = "close"
                    /\ \A k \in (i + 1)..(j - 1) : tokens[k].t # "close"
ContentOf(tokens, i) == [k \in 1..(EndOf(tokens, i) - i - 1) |-> tokens[i + k].v]
Nth(S, n) == CHOOSE i \in S : Cardinality({x \in S : x < i}) = n - 1
NoRawMarkup(tokens) == \A i \in 1..Len(tokens) : tokens[i].t = "chr" => tokens[i].v # "<"

\* C17: a built menu, directory or text document holds exactly one Prompt
\* element when the family is 79xx and none when it is modern, whatever
\* items, entries and softkeys were added.
C17_PromptOnlyFor79xx ==
    xml.built =>
        /\ NoRawMarkup(xml.out)
        /\ Cardinality(Opens(xml.out, "Prompt")) = (IF doc.is_79xx THEN 1 ELSE 0)

C17_Witness ==
    /\ xml.built
    /\ doc.kind = "directory"
    /\ doc.is_79xx
    /\ doc.title = <<"<", "P", "r", "o", "m", "p", "t", ">">>
    /\ Len(doc.items) = 2
    /\ Len(doc.softkeys) = 2
    /\ Cardinality(Opens(xml.out, "Prompt")) = 1

RankOf(tag) ==
    CASE tag = "Title" -> 1
      [] tag \in {"MenuItem", "DirectoryEntry", "Text"} -> 2
      [] tag = "Prompt" -> 3
      [] tag = "SoftKeyItem" -> 4
      [] OTHER -> 0

\* C19: the children of a built document come in the order Title, the whole
\* body, the Prompt if any, then all SoftKeyItems, whatever the order of the
\* add_item / add_entry and add_softkey calls before build.
C19_ChildOrder ==
    xml.built =>
        LET tokens == xml.out
            kids == ChildrenOf(tokens)
        IN  /\ NoRawMarkup(tokens)
            /\ Cardinality({i \in kids : tokens[i].v = "Title"}) = 1
            /\ \A i \in kids : RankOf(tokens[i].v) > 0
            /\ \A i \in kids, j \in kids : i < j => RankOf(tokens[i].v) <= RankOf(tokens[j].v)
            /\ Cardinality({i \in kids : RankOf(tokens[i].v) = 2}) =
                  (IF doc.kind = "text" THEN 1 ELSE Len(doc.items))
            /\ Cardinality({i \in kids : tokens[i].v = "SoftKeyItem"}) = Len(doc.softkeys)

C19_Witness ==
    /\ xml.built
    /\ softkeyFirst
    /\ doc.kind = "menu"
    /\ doc.is_79xx
    /\ Len(doc.items) = 2
    /\ Len(doc.softkeys) = 2

\* the encoding the claim gives: "+" and the space as "%" and two hex digits
RECURSIVE PercentEncoded(_)
PercentEncoded(id) ==
    IF id = <<>> THEN <<>>
    ELSE (CASE Head(id) = "+" -> <<"%", "2", "B">>
            [] Head(id) = " " -> <<"%", "2", "0">>
            [] OTHER -> <<Head(id)>>) \o PercentEncoded(Tail(id))
RECURSIVE EntityEscaped(_)
EntityEscaped(name) ==
    IF name = <<>> THEN <<>>
    ELSE (CASE Head(name) = "<" -> <<"&", "l", "t", ";">>
            [] Head(name) = "&" -> <<"&", "a", "m", "p", ";">>
            [] Head(name) = "\"" -> <<"&", "q", "u", "o", "t", ";">>
            [] OTHER -> <<Head(name)>>) \o EntityEscaped(Tail(name))

\* C20: in a directory document each "<", "&" and quotation mark of a display
\* name is in the Name element only as its entity, and each "+" and each
\* space of a dialable id is in the Telephone element as %XX, never raw.
C20_NameEscapedTelephonePercentEncoded ==
    xml.built /\ doc.kind = "directory" =>
        \A k \in 1..Len(doc.items) :
            LET e == Nth(Opens(xml.out, "DirectoryEntry"), k)
                t == Nth(Opens(xml.out, "Telephone"), k)
            IN  /\ ContentOf(xml.out, e + 1) = EntityEscaped(doc.items[k].name)
                /\ ContentOf(xml.out, t) = PercentEncoded(doc.items[k].telephone)

RoleOfKey(name) ==
    CASE name \in {"Exit", "Back"} -> "exit"
      [] name \in {"Select", "View", "Dial", "Call", "Submit"} -> "select"
      [] name \in {"Update", "Help"} -> "update"
      [] name = "Next" -> "next"
      [] name = "Previous" -> "previous"

\* C18: in every document a flow emits, each softkey's Position is the
\* value the position table gives for the key's role and the family of the
\* request, and the document holds the softkeys and items in the order added.
C18_FlowPositionsFollowTable ==
    dResp.status = 200 =>
        \A i \in 1..Len(dResp.softkeys) :
            dResp.softkeys[i].position =
                SoftkeyPosition(dReq.is_79xx, RoleOfKey(dResp.softkeys[i].name))

(***************************************************************************)
(* Claims about the backend session and the storage of a request.          *)
(***************************************************************************)
IsSend(task) == task.kind = "quality_report_send" /\ ValidateDeviceName(task.name)
\* the calls a task has issued when it waits at pc: all but the last answered
CallsIssuedAt(pc) ==
    CASE pc = "login" -> {1}
      [] pc = "sippeers" -> {2}
      [] pc = "showpeer" -> {3}
      [] pc = "logoff" -> {3, 4}
      [] OTHER -> {0}
OneCallAtATime == \A id \in 1..Len(req) : req[id].pc # "done" => req[id].calls \in CallsIssuedAt(req[id].pc)
AtMostOneAppend == (IsSend(out) /\ out.wrote) => Cardinality(LinesBy(out)) = 1

\* C21 (as claimed): a request performs at most two backend calls, one
\* after another, and at most one append to a per-device log; counted over
\* every HTTP call of quality_report_send, directory_entries, parked_calls.
C21_AtMostTwoBackendCalls ==
    /\ out.kind # "none" => out.calls <= 2
    /\ Len(dCalls) <= 2
    /\ OneCallAtATime
    /\ AtMostOneAppend

\* C21 (amended): quality_report_send performs at most four backend calls
\* (Login, SIPPeers, SIPShowPeer, Logoff), directory_entries and parked_calls
\* at most three (Login, the list action, Logoff); the calls of a request
\* are issued one after another, each after the answer to the one before,
\* and a request appends at most once to a per-device log.
C21_AtMostFourSequentialCalls ==
    /\ out.kind # "none" => out.calls <= 4
    /\ Len(dCalls) <= 3
    /\ OneCallAtATime
    /\ AtMostOneAppend

C21_Witness ==
    /\ IsSend(out)
    /\ out.calls = 4
    /\ out.failed = {}
    /\ out.wrote
    /\ Cardinality(LinesBy(out)) = 1
    /\ \E id \in 1..Len(req) : req[id].pc = "showpeer" /\ req[id].calls = 3

\* C27: for every request that opens a backend session the HTTP client it
\* created is closed when the request finishes, on every path: login
\* failure, action failure, logoff failure, success.
C27_ClientClosedWhenRequestEnds ==
    out.kind # "none" => out.client \in {"none", "closed"}

IsWholeLines(content) ==
    /\ Len(content) % 2 = 0
    /\ \A i \in 1..Len(content) : content[i].t = (IF i % 2 = 1 THEN "json" ELSE "nl")

\* C22: when the quality log cannot be opened or written in
\* quality_report_send, the request ends in the server-error response, not
\* in the confirmation TextDocument, and the log holds no partial record:
\* the step leaves its content unchanged or extended by one complete line.
C22_Step ==
    (Answered /\ out'.kind = "quality_report_send" /\ out'.oserror) =>
        LET f == QrtFileName(out'.name)
            old == FileContent(fs, f)
            new == FileContent(fs', f)
        IN  /\ out'.resp = ServerError
            /\ ~out'.wrote
            /\ \/ new = old
               \/ /\ Len(new) = Len(old) + 2
                  /\ IsPrefixOf(old, new)
                  /\ new[Len(new) - 1].t = "json" /\ new[Len(new)].t = "nl"
            /\ IsWholeLines(new)
            /\ accepted' = accepted
PageLinks(resp) == {resp.softkeys[i].url.page : i \in {j \in 1..Len(resp.softkeys) : resp.softkeys[j].name \in {"Next", "Previous"}}}

\* C23: the page number directory_entries uses for the slice, the title and
\* the links is never below 1: a requested page below 1 is rejected before
\* pagination (or clamped to 1) and never gives a negative start offset.
C23_PageNeverBelowOne ==
    (dReq.handler = "directory_entries" /\ dResp.kind # "none") =>
        /\ (dReq.page < 1 /\ dResp.status = 200 /\ dResp.kind = "directory") => dResp.page = 1
        /\ (dReq.page < 1 /\ dResp.status # 200) => (dResp = PageRejected /\ dCalls = <<>>)
        /\ dResp.kind = "directory" =>
              /\ dResp.page >= 1
              /\ (dResp.page - 1) * PerPage >= 0
              /\ \A p \in PageLinks(dResp) : p >= 1
              /\ dResp.total_pages > 1 =>
                    dResp.title = dReq.index \o <<" ">> \o Str(dResp.page) \o <<"/">>
                                    \o Str(dResp.total_pages)

C23_Witness ==
    /\ dReq.handler = "directory_entries"
    /\ dReq.page = 0
    /\ dReq.index = DIAL_INDICES[2]
    /\ dReq.n = MaxEntries
    /\ dReq.fails = {}
    /\ dResp = PageRejected

ParkedList == ParkedEvents(dReq.n, dReq.stride)

SameListing(i, j) ==
    /\ dLog[i].resp.kind = "directory" /\ dLog[j].resp.kind = "directory"
    /\ dLog[i].req.index = dLog[j].req.index
    /\ dLog[i].req.n = dLog[j].req.n
    /\ dLog[i].req.stride = dLog[j].req.stride
\* every page of the listing of entry i has been served
AllPagesServed(i) ==
    \A p \in 1..dLog[i].resp.total_pages :
        \E j \in 1..Len(dLog) : SameListing(i, j) /\ dLog[j].resp.page = p
PageDoc(i, p) ==
    dLog[CHOOSE j \in 1..Len(dLog) : SameListing(i, j) /\ dLog[j].resp.page = p].resp
RECURSIVE PagesFrom(_, _)
PagesFrom(i, p) ==
    IF p > dLog[i].resp.total_pages THEN <<>>
    ELSE PageDoc(i, p).entries \o PagesFrom(i, p + 1)
ListOf(q) == RawEntries(q.n, q.stride)

\* C25: for a fixed backend list and index, the slices of pages
\* 1..totalPages put one after another in page order are the filtered sorted
\* list: every matching entry is on exactly one page, none is lost or
\* shown twice, and the order runs on across the page boundaries.
C25_PagesPartitionTheListing ==
    \A i \in 1..Len(dLog) :
        (dLog[i].resp.kind = "directory" /\ AllPagesServed(i)) =>
            LET q == dLog[i].req
                all == PagesFrom(i, 1)
                matching == {k \in 1..q.n : FirstCharIn(ListOf(q)[k].name, q.index)}
            IN  /\ Len(all) = Cardinality(matching)
                /\ Len(all) = dLog[i].resp.filtered
                /\ \A k \in matching :
                      Cardinality({m \in 1..Len(all) :
                                      /\ all[m].telephone = ListOf(q)[k].mailbox
                                      /\ all[m].name = ListOf(q)[k].name}) = 1
                /\ \A m \in 1..Len(all), n \in 1..Len(all) :
                      m < n =>
                          \/ StrLess(all[m].name, all[n].name)
                          \/ /\ all[m].name = all[n].name
                             /\ StrLess(all[m].telephone, all[n].telephone)

C25_Witness ==
    /\ Len(dLog) = 3
    /\ dLog[1].resp.kind = "directory"
    /\ dLog[1].resp.total_pages = 3
    /\ dLog[1].resp.page = 2
    /\ dLog[2].resp.page = 3
    /\ dLog[3].resp.page = 1
    /\ AllPagesServed(1)
    /\ Len(PagesFrom(1, 1)) > 2 * PerPage

LogHasKey(i, name) ==
    \E k \in 1..Len(dLog[i].resp.softkeys) : dLog[i].resp.softkeys[k].name = name
LogKey(i, name) ==
    dLog[i].resp.softkeys[CHOOSE k \in 1..Len(dLog[i].resp.softkeys) :
                              dLog[i].resp.softkeys[k].name = name]
\* the link of a key of entry i leads to the same listing, at page
LinkLeadsTo(i, name, page) ==
    /\ LogKey(i, name).url.base = dLog[i].req.base_url
    /\ LogKey(i, name).url.path = "/directory/entries"
    /\ UnquotePlus(LogKey(i, name).url.index) = dLog[i].req.index
    /\ LogKey(i, name).url.page = page

\* C26: the Next link of a directory_entries document carries the same
\* index and page + 1 <= totalPages, the Previous link the same index and
\* page - 1 >= 1; following Next from page 1 goes up one page at a time,
\* reaches totalPages and finds no Next there; Next and then Previous from
\* page p gives the document of page p again.
C26_NavigationLinks ==
    \A i \in 1..Len(dLog) :
        dLog[i].resp.kind = "directory" =>
            LET R == dLog[i].resp
            IN  /\ LogHasKey(i, "Next") <=> R.page < R.total_pages
                /\ LogHasKey(i, "Next") => LinkLeadsTo(i, "Next", R.page + 1)
                /\ LogHasKey(i, "Previous") <=> R.page > 1
                /\ LogHasKey(i, "Previous") => LinkLeadsTo(i, "Previous", R.page - 1)
                /\ (i > 1 /\ dLog[i].via = "Next") =>
                      /\ R.page = dLog[i - 1].resp.page + 1
                      /\ R.page <= R.total_pages
                      /\ R.total_pages = dLog[i - 1].resp.total_pages
                      /\ dLog[i].req.index = dLog[i - 1].req.index
                /\ (i > 1 /\ dLog[i].via = "Previous") =>
                      /\ R.page = dLog[i - 1].resp.page - 1
                      /\ R.page >= 1
                      /\ dLog[i].req.index = dLog[i - 1].req.index
                /\ (i > 2 /\ dLog[i].via = "Previous" /\ dLog[i - 1].via = "Next") =>
                      R = dLog[i - 2].resp

C26_Witness ==
    /\ Len(dLog) = 3
    /\ dLog[1].req.page = 1
    /\ dLog[2].via = "Next"
    /\ dLog[3].via = "Next"
    /\ dLog[3].resp.page = dLog[3].resp.total_pages
    /\ dLog[3].resp.page = 3
    /\ ~LogHasKey(3, "Next")
    /\ LogHasKey(3, "Previous")

C26_WitnessBack ==
    /\ Len(dLog) = 3
    /\ dLog[1].resp.page = 2
    /\ dLog[2].via = "Next"
    /\ dLog[3].via = "Previous"
    /\ dLog[3].resp = dLog[1].resp

\* the text the reason table of the quality report menu gives a code
TableText(code) ==
    CASE code = "0" -> "Audio had echo"
      [] code = "1" -> "Audio had crackling"
      [] code = "2" -> "I could not hear them"
      [] code = "3" -> "They could not hear me"
      [] code = "4" -> "Other issue (unspecified)"
      [] OTHER -> ""

\* C28: in quality_report_send the reason text of the logged record is the
\* reason text of the TextDocument body: the text of the reason table for
\* the codes "0".."4" and the empty string for any other or missing code,
\* and a request with such a code is still accepted and logged.
C28_ReasonTextLoggedAndShown ==
    (IsSend(out) /\ ~out.oserror) =>
        /\ out.resp.status = 200
        /\ out.resp.kind = "text"
        /\ out.resp.text = <<TableText(out.reason), " has been reported.">>
        /\ out.wrote
        /\ LinesBy(out) # {}
        /\ \A i \in LinesBy(out) : fs[out.target][i].reason = out.resp.text[1]

C28_Witness ==
    /\ IsSend(out)
    /\ out.reason = "9"
    /\ out.resp.kind = "text"
    /\ out.resp.text[1] = ""
    /\ Len(fs[out.target]) = 4
    /\ fs[out.target][1].reason = "Other issue (unspecified)"
    /\ fs[out.target][3].reason = ""

DistinctPositions(softkeys) ==
    \A i \in 1..Len(softkeys), j \in 1..Len(softkeys) :
        i # j => softkeys[i].position # softkeys[j].position
SoftkeyHandlers == {"directory_index", "directory_entries", "services_menu", "parked_calls"}

\* C29: in every document of directory_index, directory_entries,
\* services_menu, parked_calls, quality_report and quality_report_send, for
\* both families and every combination of Next and Previous, no two
\* softkeys have the same Position.
C29_SoftkeyPositionsDistinct ==
    /\ (dReq.handler \in SoftkeyHandlers /\ dResp.status = 200) =>
            DistinctPositions(dResp.softkeys)
    /\ (out.kind \in {"quality_report", "quality_report_send"} /\ out.resp.status = 200) =>
            DistinctPositions(out.resp.softkeys)

C29_Witness ==
    /\ dReq.handler = "directory_entries"
    /\ dReq.is_79xx
    /\ dResp.status = 200
    /\ HasKey("Next") /\ HasKey("Previous")
    /\ Len(dResp.softkeys) = 4
    /\ {dResp.softkeys[i].position : i \in 1..4} = {"1", "2", "3", "4"}

C29_WitnessReport ==
    /\ out.kind = "quality_report"
    /\ out.is_79xx
    /\ out.resp.status = 200
    /\ Len(out.resp.softkeys) = 2

\* C30: an accepted quality_report_send for device D changes no file but
\* qrt-D.json: the quality log of every other device and every stored
\* problem-report bundle is the same after it as before.
C30_Step ==
    (Answered /\ out'.kind = "quality_report_send" /\ out'.resp.status = 200) =>
        /\ DOMAIN fs' \ DOMAIN fs \subseteq {Chars_qrt \o out'.name \o Chars_json}
        /\ \A f \in DOMAIN fs :
              f # Chars_qrt \o out'.name \o Chars_json => (f \in DOMAIN fs' /\ fs'[f] = fs[f])
        /\ fs' # fs
C30_SendChangesOnlyItsOwnLog == [][C30_Step]_vars

C30_Witness ==
    /\ out.kind = "quality_report_send"
    /\ out.resp.status = 200
    /\ out.name = D1
    /\ \E f \in DOMAIN fs : f # out.target /\ fs[f] # <<>>
    /\ Len(fs[out.target]) = 2
====
